---- MODULE Spec2Model ----
(***************************************************************************)
(* Forward pass of the nnxlm decoder-only language models                  *)
(* (src/nnxlm/phi3.py, src/nnxlm/qwen3.py).                                *)
(*                                                                         *)
(* Tensors are modelled with their real index structure (heads, positions, *)
(* feature columns); the batch axis is left out, every operation of the    *)
(* code being independent per batch element.  The entries of a tensor are  *)
(* symbolic: the result of a library kernel (nnx.Linear, nnx.RMSNorm,      *)
(* jax.nn.softmax, jnp.matmul, nnx.Embed) is the record of the kernel and  *)
(* of the operands it was applied to, so two tensors are equal exactly     *)
(* when they were computed from the same operands in the same way.         *)
(*                                                                         *)
(* utils.apply_rope and the KVCache entries the callers pass are not part  *)
(* of these two files; they are modelled from the specification (4.1, 4.2).*)
(* Every __call__ is decorated with @nnx.jit: a call works on traced       *)
(* arguments, whose state reaches the caller's objects when it returns.    *)
(***************************************************************************)
EXTENDS Integers, Naturals, Sequences, FiniteSets, TLC

\* ------------------------------------------------------------------ bounds
MaxHeads == 4
MaxLayers == 2
MaxLen == 2
MaxCalls == 3

\* the values drawn for config.hidden_size, config.head_dim, the token ids and
\* config.partial_rotary_factor (in halves: 1 is the factor 0.5)
HiddenSizes == {4}
HeadDims == {2}
TokenIds == {0, 1}
RotaryHalves == {1}
Variants == {"phi3", "qwen3"}

\* an entry of the additive attention mask: 0 (permitted) or NegInf (forbidden)
NegInf == -1

Min(a, b) == IF a < b THEN a ELSE b
Max(a, b) == IF a > b THEN a ELSE b

\* ------------------------------------------------------------ construction
\* Attention.__init__ of phi3.py
Phi3AttentionInit(config) ==
  LET n_heads == config.num_attention_heads
      n_kv_heads == config.num_key_value_heads
      head_dim == config.hidden_size \div n_heads
  IN [ n_heads |-> n_heads,
       n_kv_heads |-> n_kv_heads,
       head_dim |-> head_dim,
       scale |-> [base |-> head_dim, exp |-> "-0.5"],
       qkv_out |-> n_heads * head_dim + 2 * (n_kv_heads * head_dim),
       o_in |-> n_heads * head_dim,
       rot_dims |-> (head_dim * config.partial_rotary_halves) \div 2 ]

\* Attention.__init__ of qwen3.py
Qwen3AttentionInit(config) ==
  [ num_attention_heads |-> config.num_attention_heads,
    num_kv_heads |-> config.num_key_value_heads,
    head_dim |-> config.head_dim,
    scale |-> [base |-> config.head_dim, exp |-> "-0.5"],
    n_repeat |-> config.num_attention_heads \div config.num_key_value_heads,
    q_out |-> config.num_attention_heads * config.head_dim,
    kv_out |-> config.num_key_value_heads * config.head_dim,
    o_in |-> config.num_attention_heads * config.head_dim ]

\* Phi3ForCausalLM.__init__ / Qwen3ForCausalLM.__init__ (with the Model and
\* TransformerBlock constructors they call): every layer is built from the
\* same config, so one record of attention attributes stands for all layers.
ForCausalLMInit(config) ==
  [ variant |-> config.variant,
    tie |-> config.tie_word_embeddings,
    has_lm_head |-> ~config.tie_word_embeddings,
    num_layers |-> config.num_hidden_layers,
    hidden_size |-> config.hidden_size,
    attn |-> IF config.variant = "phi3" THEN Phi3AttentionInit(config)
                                         ELSE Qwen3AttentionInit(config) ]

\* the configurations drawn; head_dim ** -0.5 raises ZeroDivisionError when
\* head_dim is 0, so only configurations with hidden_size >= heads construct
Configs ==
  { c \in [ variant : Variants,
            num_attention_heads : 1..MaxHeads,
            num_key_value_heads : 1..(MaxHeads \div 2),
            hidden_size : HiddenSizes,
            head_dim : HeadDims,
            partial_rotary_halves : 1..2,
            num_hidden_layers : 1..MaxLayers,
            tie_word_embeddings : BOOLEAN ] :
      /\ c.hidden_size \div c.num_attention_heads >= 1
      /\ c.partial_rotary_halves \in RotaryHalves }

NHeads(m) == IF m.variant = "phi3" THEN m.attn.n_heads ELSE m.attn.num_attention_heads
NKVHeads(m) == IF m.variant = "phi3" THEN m.attn.n_kv_heads ELSE m.attn.num_kv_heads

\* ------------------------------------------------------------ tensor kernels
\* a weight matrix: its parameter name, its layer, and its output columns
Weight(name, layer, out_features) ==
  [name |-> name, l |-> layer, cols |-> [c \in 1..out_features |-> c]]

\* the columns [lo, hi) (0-based, as a Python slice) of a weight matrix
ColBlock(W, lo, hi) == [W EXCEPT !.cols = SubSeq(W.cols, lo + 1, Min(hi, Len(W.cols)))]

\* nnx.Linear without bias on the rows x[p]: output column c of row p is the
\* product of input row p with weight column c
Linear(W, x) ==
  [p \in 1..Len(x) |->
     [w |-> W.name, l |-> W.l, cols |-> W.cols, src |-> x[p],
      norm |-> "", pos |-> -1, rot |-> 0]]

\* x[:, :, lo:hi] on the last axis
SliceCols(rows, lo, hi) ==
  [p \in 1..Len(rows) |->
     [rows[p] EXCEPT !.cols = SubSeq(rows[p].cols, lo + 1, Min(hi, Len(rows[p].cols)))]]

\* x.reshape(B, L, H, D) is defined only when the last axis holds H*D columns
ReshapeHeadsOK(rows, H, D) == \A p \in 1..Len(rows) : Len(rows[p].cols) = H * D

ReshapeHeads(rows, H, D) ==
  [p \in 1..Len(rows) |->
     [h \in 1..H |->
        [rows[p] EXCEPT !.cols = SubSeq(rows[p].cols, (h - 1) * D + 1, h * D)]]]

\* jnp.transpose(t, (0, 2, 1, 3)): swaps the two middle axes
Transpose(t) ==
  IF t = <<>> THEN <<>>
  ELSE [b \in 1..Len(t[1]) |-> [a \in 1..Len(t) |-> t[a][b]]]

\* nnx.RMSNorm over the last axis of a (heads, positions, head_dim) tensor
HeadNorm(name, t) ==
  [h \in 1..Len(t) |-> [p \in 1..Len(t[h]) |-> [t[h][p] EXCEPT !.norm = name]]]

\* ------------------------------------------------- rotary encoding, KV cache
\* utils.apply_rope(q, k, cos, sin, rot_dims): rotates the leading rot_dims
\* dimensions of every query and key vector by the angle the table holds for
\* its position; rope[p] is the absolute position the table row p encodes
RotateHeads(t, rope, rot_dims) ==
  [h \in 1..Len(t) |->
     [p \in 1..Len(t[h]) |-> [t[h][p] EXCEPT !.pos = rope[p], !.rot = rot_dims]]]

apply_rope(q, k, rope, rot_dims) ==
  [q |-> RotateHeads(q, rope, rot_dims), k |-> RotateHeads(k, rope, rot_dims)]

\* a cache entry nobody has updated yet, and the None a caller may pass instead
EmptyEntry == [present |-> TRUE, keys |-> <<>>, values |-> <<>>]
NoEntry == [present |-> FALSE, keys |-> <<>>, values |-> <<>>]

AppendHeads(old, new) ==
  IF old = <<>> THEN new ELSE [h \in 1..Len(new) |-> old[h] \o new[h]]

\* KVCache entry called as cache(k, v): appends the new keys and values along
\* the sequence axis and returns the whole history, earliest position first
KVCacheUpdate(entry, k, v) ==
  LET e == [present |-> TRUE,
            keys |-> AppendHeads(entry.keys, k),
            values |-> AppendHeads(entry.values, v)]
  IN [k |-> e.keys, v |-> e.values, entry |-> e]

\* ------------------------------------------------------------ attention core
\* the tiling [k0, k1, k0, k1] that jnp.tile would give
RepeatTiled(t, n) == [i \in 1..(Len(t) * n) |-> t[((i - 1) % Len(t)) + 1]]

\* k.repeat(repeats=n, axis=1) / jnp.repeat(k, repeats=n, axis=1): every head
\* is repeated n times in place
RepeatKV(t, n) == [i \in 1..(Len(t) * n) |-> t[((i - 1) \div n) + 1]]

\* numpy broadcasting of two axis lengths
Broadcastable(a, b) == a = b \/ a = 1 \/ b = 1
Pick(t, i) == IF Len(t) = 1 THEN t[1] ELSE t[i]

\* the (key, value) pairs of kv, from index j on, whose mask entry is 0:
\* softmax gives a key whose additive mask is NegInf the weight 0
RECURSIVE Unmasked(_, _, _)
Unmasked(kv, maskrow, j) ==
  IF j > Len(kv) THEN <<>>
  ELSE (IF Pick(maskrow, j) = 0 THEN <<kv[j]>> ELSE <<>>) \o Unmasked(kv, maskrow, j + 1)

\* the shapes matmul(q, k^T), w + attention_mask and matmul(w, v) accept: the
\* head axes broadcast, the mask broadcasts over the key axis, and the key
\* axis of the weights must be the sequence axis of v (the caller's mask
\* always has one row per query position)
AttendOK(q, k, v, mask) ==
  /\ q # <<>> /\ k # <<>> /\ v # <<>>
  /\ Broadcastable(Len(q), Len(k))
  /\ Len(mask) = Len(q[1])
  /\ \A p \in 1..Len(mask) :
       /\ Broadcastable(Len(mask[p]), Len(k[1]))
       /\ \A g \in 1..Len(v) : Len(v[g]) = Max(Len(mask[p]), Len(k[1]))
  /\ Broadcastable(Max(Len(q), Len(k)), Len(v))

\* w = softmax(matmul(q, k^T) * scale + attention_mask); w = matmul(w, v):
\* the output of head h at position p, from its query and the keys and values
\* it attends to
Attend(q, k, v, mask, scale) ==
  LET H == Max(Max(Len(q), Len(k)), Len(v))
  IN [h \in 1..H |->
        [p \in 1..Len(q[1]) |->
           LET kv == [j \in 1..Len(k[1]) |-> [k |-> Pick(k, h)[j], v |-> Pick(v, h)[j]]]
           IN [q |-> Pick(q, h)[p], scale |-> scale, kv |-> Unmasked(kv, mask[p], 1)]]]

\* w.reshape(B, L, -1): the head outputs in row-major order, cut into L rows
RECURSIVE Flatten(_)
Flatten(t) == IF t = <<>> THEN <<>> ELSE Head(t) \o Flatten(Tail(t))

ReshapeRows(t, L) ==
  LET flat == Flatten(t)
      W == Len(flat) \div L
  IN [p \in 1..L |-> SubSeq(flat, (p - 1) * W + 1, p * W)]

\* the same reshape with the transpose before it left out
MergeHeadsUntransposed(w, L) == ReshapeRows(w, L)

\* w = w.transpose((0, 2, 1, 3)); w = w.reshape(B, L, -1)
MergeHeads(w, L) == ReshapeRows(Transpose(w), L)

\* self.o_proj(w): a Linear whose in_features must be the width of its input
OutProjOK(rows, in_features, head_dim) ==
  \A p \in 1..Len(rows) : Len(rows[p]) * head_dim = in_features

OutProj(layer, hidden_size, rows) ==
  [p \in 1..Len(rows) |->
     [w |-> "o_proj", l |-> layer, cols |-> [c \in 1..hidden_size |-> c],
      heads |-> rows[p]]]

\* ------------------------------------------------------ Attention.__call__
Failed(entry) == [ok |-> FALSE, out |-> <<>>, entry |-> entry]

\* lines 39-45 of phi3.py, 40-46 of qwen3.py, the same in both: scores, mask,
\* softmax, weighted sum, merge of the heads, output projection.  `entry` is
\* the cache entry as the call leaves it, whether or not the call then fails.
AttendAndProject(layer, hidden_size, o_in, head_dim, scale, q, k, v, mask, entry) ==
  IF ~AttendOK(q, k, v, mask) THEN Failed(entry)
  ELSE LET rows == MergeHeads(Attend(q, k, v, mask, scale), Len(q[1]))
       IN IF ~OutProjOK(rows, o_in, head_dim) THEN Failed(entry)
          ELSE [ok |-> TRUE, out |-> OutProj(layer, hidden_size, rows), entry |-> entry]

\* phi3.py lines 21-25 with kv_pos taken n_heads (not n_kv_heads) wide
Phi3SplitWideKey(a, qkv) ==
  LET query_pos == a.n_heads * a.head_dim
      kv_pos == query_pos + a.n_heads * a.head_dim
  IN [q |-> SliceCols(qkv, 0, query_pos),
      k |-> SliceCols(qkv, query_pos, kv_pos),
      v |-> SliceCols(qkv, kv_pos, a.qkv_out)]

\* phi3.py lines 21-25: the fused projection cut into q, k, v by offset
Phi3Split(a, qkv) ==
  LET query_pos == a.n_heads * a.head_dim
      kv_pos == query_pos + a.n_kv_heads * a.head_dim
  IN [q |-> SliceCols(qkv, 0, query_pos),
      k |-> SliceCols(qkv, query_pos, kv_pos),
      v |-> SliceCols(qkv, kv_pos, a.qkv_out)]

\* phi3.py lines 20-25
Phi3Projections(a, layer, x) ==
  Phi3Split(a, Linear(Weight("qkv_proj", layer, a.qkv_out), x))

\* phi3.py lines 33-38 with the repetition placed before the cache update
Phi3RepeatThenCache(a, entry, k, v) ==
  LET rep == a.n_heads > a.n_kv_heads
      n_repeat == a.n_heads \div a.n_kv_heads
      k1 == IF rep THEN RepeatKV(k, n_repeat) ELSE k
      v1 == IF rep THEN RepeatKV(v, n_repeat) ELSE v
  IN IF entry.present THEN KVCacheUpdate(entry, k1, v1)
     ELSE [k |-> k1, v |-> v1, entry |-> entry]

\* phi3.py lines 33-38: the cache update, then the grouped-query repetition
Phi3CacheAndRepeat(a, entry, k, v) ==
  LET c == IF entry.present THEN KVCacheUpdate(entry, k, v)
           ELSE [k |-> k, v |-> v, entry |-> entry]
      rep == a.n_heads > a.n_kv_heads
      n_repeat == a.n_heads \div a.n_kv_heads
  IN [k |-> IF rep THEN RepeatKV(c.k, n_repeat) ELSE c.k,
      v |-> IF rep THEN RepeatKV(c.v, n_repeat) ELSE c.v,
      entry |-> c.entry]

\* Attention.__call__ of phi3.py
Phi3Attention(a, layer, hidden_size, x, mask, rope, entry) ==
  LET s == Phi3Projections(a, layer, x)
  IN IF ~(/\ ReshapeHeadsOK(s.q, a.n_heads, a.head_dim)
          /\ ReshapeHeadsOK(s.k, a.n_kv_heads, a.head_dim)
          /\ ReshapeHeadsOK(s.v, a.n_kv_heads, a.head_dim))
     THEN Failed(entry)
     ELSE LET q0 == Transpose(ReshapeHeads(s.q, a.n_heads, a.head_dim))
              k0 == Transpose(ReshapeHeads(s.k, a.n_kv_heads, a.head_dim))
              v0 == Transpose(ReshapeHeads(s.v, a.n_kv_heads, a.head_dim))
              r == apply_rope(q0, k0, rope, a.rot_dims)
              c == Phi3CacheAndRepeat(a, entry, r.k, v0)
          IN AttendAndProject(layer, hidden_size, a.o_in, a.head_dim, a.scale,
                              r.q, c.k, c.v, mask, c.entry)

\* qwen3.py lines 23-25: three independent projections of the same input
SeparateProjections(Wq, Wk, Wv, x) ==
  [q |-> Linear(Wq, x), k |-> Linear(Wk, x), v |-> Linear(Wv, x)]

\* qwen3.py lines 13-15 and 23-25: q_proj, k_proj, v_proj applied to x
Qwen3Projections(a, layer, x) ==
  SeparateProjections(Weight("q_proj", layer, a.q_out),
                      Weight("k_proj", layer, a.kv_out),
                      Weight("v_proj", layer, a.kv_out), x)

\* qwen3.py lines 35-39: the cache update, then the grouped-query repetition
Qwen3CacheAndRepeat(a, entry, k, v) ==
  LET c == IF entry.present THEN KVCacheUpdate(entry, k, v)
           ELSE [k |-> k, v |-> v, entry |-> entry]
  IN [k |-> IF a.n_repeat > 1 THEN RepeatKV(c.k, a.n_repeat) ELSE c.k,
      v |-> IF a.n_repeat > 1 THEN RepeatKV(c.v, a.n_repeat) ELSE c.v,
      entry |-> c.entry]

\* Attention.__call__ of qwen3.py; apply_rope without rot_dims rotates the
\* whole head_dim
Qwen3Attention(a, layer, hidden_size, x, mask, rope, entry) ==
  LET s == Qwen3Projections(a, layer, x)
      q0 == HeadNorm("q_norm",
              Transpose(ReshapeHeads(s.q, a.num_attention_heads, a.head_dim)))
      k0 == HeadNorm("k_norm",
              Transpose(ReshapeHeads(s.k, a.num_kv_heads, a.head_dim)))
      v0 == Transpose(ReshapeHeads(s.v, a.num_kv_heads, a.head_dim))
      r == apply_rope(q0, k0, rope, a.head_dim)
      c == Qwen3CacheAndRepeat(a, entry, r.k, v0)
  IN AttendAndProject(layer, hidden_size, a.o_in, a.head_dim, a.scale,
                      r.q, c.k, c.v, mask, c.entry)

\* ------------------------------------------------ TransformerBlock.__call__
\* self.input_layernorm(x): RMSNorm of every row with the layer's scale
InputLayerNorm(layer, x) == [p \in 1..Len(x) |-> [ln |-> layer, x |-> x[p]]]

\* x = x + h; return x + self.mlp(self.post_attention_layernorm(x)): row p of
\* the result is a function of the layer's weights, of row p of x and of row
\* p of the attention output h alone
Residuals(layer, x, h) == [p \in 1..Len(x) |-> [l |-> layer, x |-> x[p], h |-> h[p]]]

\* TransformerBlock.__call__: [ok, h (the attention output), rows, entry]
TransformerBlock(m, layer, x, mask, rope, entry) ==
  LET xin == InputLayerNorm(layer, x)
      r == IF m.variant = "phi3"
           THEN Phi3Attention(m.attn, layer, m.hidden_size, xin, mask, rope, entry)
           ELSE Qwen3Attention(m.attn, layer, m.hidden_size, xin, mask, rope, entry)
  IN [ok |-> r.ok, h |-> r.out, entry |-> r.entry,
      rows |-> IF r.ok THEN Residuals(layer, x, r.out) ELSE <<>>]

\* ------------------------------------------------------------- state machine
VARIABLES
  model,     \* the constructed ForCausalLM: its attributes and sub-modules
  tokens,    \* the token sequence of the session
  cache,     \* the caller's cache collection, one entry per index
  traced,    \* the cache collection the jit-traced call works on
  seen,      \* the caller's count of tokens the cache has been fed
  pc,        \* "idle", "layers" (inside Model.__call__'s loop) or "error"
  call,      \* the arguments of the current (or last) forward call
  i,         \* the loop index of Model.__call__
  x,         \* the hidden state x of Model.__call__, one row per position
  heap,      \* the hidden-state rows computed so far, each held once
  cache0,    \* the caller's cache collection as the current call received it
  ran,       \* what each loop iteration of the current call did, in order
  attnFull,  \* per layer, the attention output of the last cache-free call
  attnInc,   \* per layer, the attention outputs of the cached calls, in order
  result,    \* what the last completed call returned
  history    \* the calls made so far and how each ended

vars == <<model, tokens, cache, traced, seen, pc, call, i, x, heap, cache0, ran,
          attnFull, attnInc, result, history>>

\* the caller's additive mask for L new positions after `offset` cached ones:
\* query p may attend to keys 1..offset+p
CausalMask(offset, L) ==
  [p \in 1..L |-> [j \in 1..(offset + L) |-> IF j <= offset + p THEN 0 ELSE NegInf]]

\* the caller's rotary table: row p encodes absolute position offset + p - 1
RopeTable(offset, L) == [p \in 1..L |-> offset + p - 1]

\* self.embed_tokens(input_ids)
Embed(ids) == [p \in 1..Len(ids) |-> [kind |-> "embed", n |-> ids[p]]]

\* the rows are put on the heap, equal rows once, and named by their index
RECURSIVE Intern(_, _)
Intern(hp, rows) ==
  IF rows = <<>> THEN [heap |-> hp, ids |-> <<>>]
  ELSE LET found == {k \in 1..Len(hp) : hp[k] = Head(rows)}
           hp1 == IF found = {} THEN Append(hp, Head(rows)) ELSE hp
           id == IF found = {} THEN Len(hp) + 1 ELSE CHOOSE k \in found : TRUE
           rest == Intern(hp1, Tail(rows))
       IN [heap |-> rest.heap, ids |-> <<[kind |-> "block", n |-> id]>> \o rest.ids]

\* enumerate(self.layers) with a layer skipped
NextIndexSkip(k) == k + 2

\* enumerate(self.layers): the index after k
NextIndex(k) == k + 1

\* every layer handed the first cache entry
CacheIndexZero(k) == 0

\* cache[i]: the entry handed to layer i
CacheIndex(k) == k

\* a forward call that rebinds an attribute of the module
SelfAfterCallRebind(m) == [m EXCEPT !.tie = ~m.tie]

\* the attributes of the module after a __call__: none is assigned
SelfAfterCall(m) == m

\* self.norm(x), then embed_tokens.attend(x) (tied) or lm_head(x)
Logits(m, xs) ==
  [p \in 1..Len(xs) |->
     [proj |-> IF m.tie THEN "embed_tokens.attend" ELSE "lm_head", x |-> xs[p]]]

NoCall == [kind |-> "", input_ids |-> <<>>, mask |-> <<>>, rope |-> <<>>]
Outcome(ok) == [cache |-> call.kind, n |-> Len(call.input_ids), ok |-> ok]

Init ==
  \E config \in Configs :
  \E n \in 1..MaxLen : \E toks \in {t \in [1..n -> TokenIds] : t[1] = 0} :
  \E entries \in {config.num_hidden_layers - 1, config.num_hidden_layers} :
    /\ model = ForCausalLMInit(config)
    /\ tokens = toks
    /\ cache = [e \in 1..entries |-> EmptyEntry]
    /\ traced = cache
    /\ seen = 0
    /\ pc = "idle"
    /\ call = NoCall
    /\ i = 0
    /\ x = <<>>
    /\ heap = <<>>
    /\ cache0 = cache
    /\ ran = <<>>
    /\ attnFull = <<>>
    /\ attnInc = [l \in 1..config.num_hidden_layers |-> <<>>]
    /\ result = <<>>
    /\ history = <<>>

\* ForCausalLM.__call__ entered, Model.__call__ up to its loop.  The caller
\* passes cache = None ("None"), a list of None per layer ("Nones") with the
\* whole token sequence, or its cache collection ("Cache") with the next n
\* tokens, and the mask and rotary table that go with them.
StartCall(kind, n) ==
  /\ pc = "idle"
  /\ Len(history) < MaxCalls
  /\ kind = "Cache" => n \in 1..(Len(tokens) - seen)
  /\ kind # "Cache" => n = Len(tokens)
  /\ LET offset == IF kind = "Cache" THEN seen ELSE 0
         ids == SubSeq(tokens, offset + 1, offset + n)
     IN /\ call' = [kind |-> kind, input_ids |-> ids,
                    mask |-> CausalMask(offset, n), rope |-> RopeTable(offset, n)]
        /\ x' = Embed(ids)
  /\ i' = 0
  /\ ran' = <<>>
  /\ cache0' = cache
  /\ traced' = cache
  /\ pc' = "layers"
  /\ model' = SelfAfterCall(model)
  /\ UNCHANGED <<tokens, cache, seen, heap, attnFull, attnInc, result, history>>

\* cache[i] raises: None is not subscriptable, or the index is out of range
IndexRaises == call.kind = "None" \/ (call.kind = "Cache" /\ CacheIndex(i) >= Len(traced))

\* the block of the current loop iteration on the entry cache[i]
Iteration ==
  TransformerBlock(model, i, x, call.mask, call.rope,
                   IF call.kind = "Cache" THEN traced[CacheIndex(i) + 1] ELSE NoEntry)

\* the in-place update of the entry cache[i] by the block
CacheAfter(entry) ==
  IF call.kind = "Cache" THEN [traced EXCEPT ![CacheIndex(i) + 1] = entry] ELSE traced

\* the loop run eagerly: the caller's entries are the ones being updated
CallerCacheEager(working) == working

\* @nnx.jit on every __call__: the call computes on traced values, and the
\* state of its arguments is written back to the caller's objects when the
\* call returns; while it runs, and when an exception leaves it, the
\* caller's cache entries are as the call received them
CallerCacheDuringCall(working) == cache

\* one iteration of Model.__call__'s loop that returns
LayerStep ==
  /\ pc = "layers"
  /\ i < model.num_layers
  /\ IF IndexRaises THEN FALSE ELSE Iteration.ok
  /\ LET b == Iteration
         s == Intern(heap, b.rows)
     IN /\ heap' = s.heap
        /\ x' = s.ids
        /\ traced' = CacheAfter(b.entry)
        /\ cache' = CallerCacheDuringCall(CacheAfter(b.entry))
        /\ ran' = Append(ran, [layer |-> i, entry |-> CacheIndex(i),
                               xin |-> x, xout |-> s.ids, h |-> b.h])
  /\ i' = NextIndex(i)
  /\ model' = SelfAfterCall(model)
  /\ UNCHANGED <<tokens, seen, pc, call, cache0, attnFull, attnInc, result, history>>

\* one iteration of Model.__call__'s loop that raises: at cache[i], or inside
\* Attention.__call__ on shapes that do not fit, after its cache update.  The
\* exception leaves the jit-traced call and reaches the caller.
LayerRaise ==
  /\ pc = "layers"
  /\ i < model.num_layers
  /\ IF IndexRaises THEN TRUE ELSE ~Iteration.ok
  /\ LET working == IF IndexRaises THEN traced ELSE CacheAfter(Iteration.entry)
     IN /\ traced' = working
        /\ cache' = CallerCacheDuringCall(working)
  /\ pc' = "error"
  /\ history' = Append(history, Outcome(FALSE))
  /\ model' = SelfAfterCall(model)
  /\ UNCHANGED <<tokens, seen, call, i, x, heap, cache0, ran, attnFull, attnInc, result>>

\* the loop is over: self.norm(x), the output projection, the return, and
\* the write-back of the traced cache state to the caller's entries
Finish ==
  /\ pc = "layers"
  /\ i >= model.num_layers
  /\ result' = Logits(model, x)
  /\ history' = Append(history, Outcome(TRUE))
  /\ pc' = "idle"
  /\ seen' = IF call.kind = "Cache" THEN seen + Len(call.input_ids) ELSE seen
  /\ attnInc' = IF call.kind = "Cache"
                THEN [l \in 1..Len(attnInc) |->
                        attnInc[l] \o (IF l <= Len(ran) THEN ran[l].h ELSE <<>>)]
                ELSE attnInc
  /\ attnFull' = IF call.kind = "Cache" THEN attnFull
                 ELSE [l \in 1..Len(ran) |-> ran[l].h]
  /\ cache' = traced
  /\ model' = SelfAfterCall(model)
  /\ UNCHANGED <<tokens, traced, call, i, x, heap, cache0, ran>>

Next ==
  \/ \E kind \in {"None", "Nones", "Cache"} : \E n \in 1..MaxLen : StartCall(kind, n)
  \/ LayerStep
  \/ LayerRaise
  \/ Finish

Spec == Init /\ [][Next]_vars

\* ------------------------------------------------------------------- claims
HeadsDivide == NHeads(model) % NKVHeads(model) = 0
NRepeat == NHeads(model) \div NKVHeads(model)
EntryLen(e) == IF e.keys = <<>> THEN 0 ELSE Len(e.keys[1])
Completed == pc = "idle" /\ history # <<>>

RECURSIVE CachedTokens(_)
CachedTokens(h) ==
  IF h = <<>> THEN 0
  ELSE (IF Head(h).cache = "Cache" /\ Head(h).ok THEN Head(h).n ELSE 0)
       + CachedTokens(Tail(h))

OneTokenPerCachedCall ==
  \A c \in 1..Len(history) : history[c].cache = "Cache" => history[c].n = 1

\* C1: once the whole token sequence has been fed through the cache one token
\* per call, and one cache-free call has run over the whole sequence, every
\* layer's Attention gave the same output at every position on both paths
\* (Phi3 and Qwen3 alike).
C1_IncrementalEqualsPrefill ==
  (/\ pc = "idle"
   /\ seen = Len(tokens)
   /\ OneTokenPerCachedCall
   /\ attnFull # <<>>)
  => /\ Len(attnFull) = model.num_layers
     /\ \A l \in 1..model.num_layers :
          /\ Len(attnFull[l]) = Len(tokens)
          /\ Len(attnInc[l]) = Len(tokens)
          /\ \A p \in 1..Len(tokens) : attnInc[l][p] = attnFull[l][p]

C1_Witness ==
  /\ pc = "idle"
  /\ seen = Len(tokens)
  /\ Len(tokens) = MaxLen
  /\ OneTokenPerCachedCall
  /\ attnFull # <<>>
  /\ model.num_layers >= 2
  /\ NHeads(model) > NKVHeads(model)

\* the attention output `row` of layer l at position p: every query head
\* attended with the keys and values of its own kv-head
C2_RowOK(l, row, p) ==
  /\ Len(row.heads) = NHeads(model)
  /\ \A hq \in 1..Len(row.heads) :
       LET o == row.heads[hq]
           g == ((hq - 1) \div NRepeat) + 1
       IN /\ Len(o.kv) = p
          /\ \A j \in 1..Min(p, EntryLen(cache[l])) :
               /\ o.kv[j].k = cache[l].keys[g][j]
               /\ o.kv[j].v = cache[l].values[g][j]

\* C2: when num_heads > num_kv_heads and num_heads is a multiple of
\* num_kv_heads, query head q (0-based) attends with the keys and values of
\* kv-head floor(q / n_repeat), as the cache entry of the layer holds them.
C2_HeadUsesItsGroup ==
  (NHeads(model) > NKVHeads(model) /\ HeadsDivide /\ pc # "error")
  => /\ \A l \in 1..Min(Len(attnInc), Len(cache)) :
          /\ Len(attnInc[l]) <= EntryLen(cache[l])
          /\ \A p \in 1..Len(attnInc[l]) : C2_RowOK(l, attnInc[l][p], p)
     /\ \A l \in 1..Min(Len(attnFull), Len(cache)) :
          \A p \in 1..Len(attnFull[l]) : C2_RowOK(l, attnFull[l][p], p)

C2_Witness ==
  /\ NHeads(model) = 4
  /\ NKVHeads(model) = 2
  /\ Completed
  /\ Len(attnInc[1]) >= 2
  /\ attnFull # <<>>

\* C3: in one forward call the blocks run in index order 0, 1, ..., N-1, block
\* i reads the output of block i-1 (block 0 the embeddings) and is handed
\* cache entry i; a call that returns has run all N blocks, and every key a
\* cache entry holds was produced by the layer of the same index.
C3_LayersInOrder ==
  /\ Len(ran) <= model.num_layers
  /\ \A k \in 1..Len(ran) :
       /\ ran[k].layer = k - 1
       /\ ran[k].entry = k - 1
       /\ ran[k].xin = (IF k = 1 THEN Embed(call.input_ids) ELSE ran[k - 1].xout)
  /\ (pc = "layers" /\ ran # <<>>) => x = ran[Len(ran)].xout
  /\ Completed => Len(ran) = model.num_layers
  /\ \A e \in 1..Len(traced) :
       \A h \in 1..Len(traced[e].keys) : \A j \in 1..Len(traced[e].keys[h]) :
         /\ traced[e].keys[h][j].l = e - 1
         /\ traced[e].values[h][j].l = e - 1

C3_Witness ==
  /\ Completed
  /\ call.kind = "Cache"
  /\ Len(ran) = 2
  /\ seen = Len(tokens)
  /\ seen >= 2

\* C4: during and after a forward call, each cache entry is either what it
\* was when the call began or that with the call's keys and values appended
\* once; it is appended to exactly when its own layer has run with the cache
\* supplied.
C4_OneUpdatePerLayer ==
  /\ Len(traced) = Len(cache0)
  /\ \A e \in 1..Len(traced) :
       LET grown == EntryLen(traced[e]) - EntryLen(cache0[e])
       IN /\ grown \in {0, Len(call.input_ids)}
          /\ (call.kind = "Cache" /\ e <= Len(ran)) => grown = Len(call.input_ids)
          /\ (call.kind # "Cache" \/ (pc # "error" /\ e > Len(ran)))
               => traced[e] = cache0[e]
          /\ \A h \in 1..Len(traced[e].keys) :
               SubSeq(traced[e].keys[h], 1, EntryLen(cache0[e]))
                 = (IF cache0[e].keys = <<>> THEN <<>> ELSE cache0[e].keys[h])
  /\ Completed => cache = traced

C4_Witness ==
  /\ Completed
  /\ call.kind = "Cache"
  /\ model.num_layers >= 2
  /\ Len(history) >= 2
  /\ EntryLen(cache[2]) = Len(tokens)

\* C5 (as claimed): no constructed model has head counts that do not divide,
\* so no cache-free call on a constructed model raises on them.
C5_NoCallTimeHeadMismatch ==
  ~(pc = "error" /\ call.kind = "Nones" /\ ~HeadsDivide)

C7_NoneCacheCompletes ==
  ~(pc = "error" /\ call.kind = "None" /\ HeadsDivide)

\* entry e of the caller's cache holds the history of the completed calls
C8_EntryOK(e) ==
  /\ EntryLen(cache[e]) = CachedTokens(history)
  /\ CachedTokens(history) = seen
  /\ seen > 0 =>
       /\ Len(cache[e].keys) = NKVHeads(model)
       /\ Len(cache[e].values) = NKVHeads(model)
       /\ \A h \in 1..NKVHeads(model) :
            /\ Len(cache[e].values[h]) = seen
            /\ \A j \in 1..seen :
                 /\ cache[e].keys[h][j].pos = j - 1
                 /\ cache[e].values[h][j].pos = -1
                 /\ e = 1 => /\ cache[e].keys[h][j].src.x = Embed(tokens)[j]
                             /\ cache[e].values[h][j].src.x = Embed(tokens)[j]
            /\ \A h2 \in 1..NKVHeads(model) :
                 h2 # h => cache[e].keys[h2][1] # cache[e].keys[h][1]

\* C8: after completed forward calls on one cache, every layer's entry holds
\* num_kv_heads distinct (un-replicated) heads of rotated keys and of values,
\* one per token fed by the completed calls, in position order, and no
\* entry ever gets shorter.
C8_CacheHoldsHistory ==
  /\ [](pc = "idle" => \A e \in 1..Min(Len(cache), model.num_layers) : C8_EntryOK(e))
  /\ [][\A e \in 1..Len(cache) : EntryLen(cache'[e]) >= EntryLen(cache[e])]_vars

C8_Witness ==
  /\ Completed
  /\ seen = MaxLen
  /\ Len(history) >= 2
  /\ history[1].cache = "Cache"
  /\ history[2].cache = "Cache"
  /\ NKVHeads(model) = 2
  /\ NHeads(model) = 4
  /\ Len(cache) = 2

\* C9: no step of a forward call changes the constructed model (its
\* attributes, which name its weights), and no step of a call that hands its
\* layers no cache entry changes the cache collection either.
C9_CallsChangeOnlyCache ==
  /\ [](\E config \in Configs : model = ForCausalLMInit(config))
  /\ [][/\ model' = model
        /\ call'.kind # "Cache" => cache' = cache]_vars

C9_Witness ==
  /\ Completed
  /\ Len(history) >= 2
  /\ history[1].cache = "Cache"
  /\ history[2].cache = "Nones"
  /\ history[2].ok

\* C10: the Phi3 fused projection is cut into query = the first
\* n_heads*head_dim columns, key = the next n_kv_heads*head_dim, value = the
\* rest, exactly n_kv_heads*head_dim wide, every column used once; so q, k, v
\* are what three separate projections give whose weights are those column
\* blocks of the fused weight.
C10_FusedSplitEqualsSeparate ==
  (model.variant = "phi3" /\ pc = "layers" /\ i < model.num_layers)
  => LET a == model.attn
         xin == InputLayerNorm(i, x)
         W == Weight("qkv_proj", i, a.qkv_out)
         qw == a.n_heads * a.head_dim
         kw == a.n_kv_heads * a.head_dim
         s == Phi3Projections(a, i, xin)
     IN /\ s = SeparateProjections(ColBlock(W, 0, qw), ColBlock(W, qw, qw + kw),
                                   ColBlock(W, qw + kw, qw + 2 * kw), xin)
        /\ \A p \in 1..Len(xin) :
             /\ Len(s.q[p].cols) = qw
             /\ Len(s.k[p].cols) = kw
             /\ Len(s.v[p].cols) = kw
             /\ s.q[p].cols \o s.k[p].cols \o s.v[p].cols = W.cols

C10_Witness ==
  /\ model.variant = "phi3"
  /\ pc = "layers"
  /\ i = 1
  /\ model.attn.n_heads > model.attn.n_kv_heads
  /\ Len(x) >= 2
====
